---- MODULE Spec2Model ----
(***************************************************************************)
(* Model of emotion_recognition/dataset.py: LabelledDataset objects built  *)
(* over a storage backend, their mutators (remove_classes, map_classes,    *)
(* normalise) and the CombinedDataset that merges them.                    *)
(*                                                                         *)
(* Conventions.  Python sequences are 0-based; the model keeps every index *)
(* VALUE 0-based (y, speaker_indices, ...) and adds 1 when it subscripts a *)
(* TLA+ sequence.  numpy arrays that are written in place (x) live in a    *)
(* heap and objects hold their address; every other field is only ever     *)
(* rebound by the code and is kept by value.  An uncaught exception ends   *)
(* the program: err records it and no operation runs afterwards.           *)
(***************************************************************************)
EXTENDS Integers, Sequences, FiniteSets, TLC

VARIABLES ds, comb, heap, err, last, nops, split, nc, obj, flattened, ragged,
          file, handles, cls, loaded

vars == <<ds, comb, heap, err, last, nops, split, nc, obj, flattened, ragged,
          file, handles, cls, loaded>>

(***************************************************************************)
(* Bounds of the model.                                                    *)
(***************************************************************************)
MaxInst == 2    \* instances a backend delivers per corpus (1..MaxInst)
MaxOps == 2     \* calls made after the source datasets are constructed

(***************************************************************************)
(* Strings.  Class names are compared lexicographically by sorted(); the   *)
(* model orders the class names it uses by their position in this list.    *)
(***************************************************************************)
ClassUniverse == <<"angry", "happy", "neutral", "sad">>

\* sorted(S) for a set S of class names
Sorted(S) == SelectSeq(ClassUniverse, LAMBDA c : c \in S)

Range(s) == {s[i] : i \in 1..Len(s)}

\* list.index(v): 0-based position of the first occurrence (caller checks membership)
Index(s, v) == (CHOOSE i \in 1..Len(s) : s[i] = v /\ \A j \in 1..(i - 1) : s[j] # v) - 1

\* s[idx] for a list idx of 0-based positions (numpy fancy indexing / list comprehension)
Take(s, idx) == [k \in 1..Len(idx) |-> s[idx[k] + 1]]

\* np.nonzero(cond)[0]: the ascending list of the 0-based positions where the
\* boolean list cond holds
nonzero(cond) == SelectSeq([k \in 1..Len(cond) |-> k - 1], LAMBDA i : cond[i + 1])

\* the concatenation of a list of lists
RECURSIVE Concat(_)
Concat(ss) == IF Len(ss) = 0 THEN <<>> ELSE Head(ss) \o Concat(Tail(ss))

MaxOf(s) == CHOOSE m \in Range(s) : \A v \in Range(s) : v <= m

MinOf(s) == CHOOSE m \in Range(s) : \A v \in Range(s) : m <= v

Count(s, v) == Cardinality({i \in 1..Len(s) : s[i] = v})

\* np.bincount(a, minlength=m) of a non-negative integer array
bincount(a, m) ==
    LET n == IF Len(a) = 0 THEN m
             ELSE IF MaxOf(a) + 1 > m THEN MaxOf(a) + 1 ELSE m
    IN  [k \in 1..n |-> Count(a, k - 1)]

\* a field the constructor never assigned (reading it raises AttributeError)
Unset == <<-1>>

(***************************************************************************)
(* Corpus metadata (the external corpora table): speakers, the partition   *)
(* of the speakers into groups, and the declared class names.              *)
(***************************************************************************)
Corpora == <<"A", "B">>

CorpusIds == Range(Corpora)

corpora ==
    [c \in CorpusIds |->
        IF c = "A"
        THEN [speakers |-> <<"a1", "a2", "a3">>,
              speaker_groups |-> <<{"a1", "a2"}, {"a3"}>>,
              classes |-> <<"sad", "happy">>]
        ELSE [speakers |-> <<"b1", "b2">>,
              speaker_groups |-> <<{"b2"}, {"b1"}>>,
              classes |-> <<"sad", "angry">>]]

\* get_speaker(name): the speaker an instance name encodes
get_speaker(n) == n.sp

(***************************************************************************)
(* The container-format backend: names, one feature row per instance       *)
(* (rectangular 2-D data) and one nominal label per instance, aligned.     *)
(* Each feature row carries the instance it was extracted from (of).       *)
(***************************************************************************)
BackendName(c, i) ==
    LET sp == corpora[c].speakers
    IN  [sp |-> sp[((i - 1) % Len(sp)) + 1], k |-> i]

Prefixed(c, n) == [corpus |-> c, n |-> n]

BackendFeature(c, i) ==
    [of |-> Prefixed(c, BackendName(c, i)), v |-> IF c = "A" THEN 2 * i ELSE i + 1]

Backends(c) ==
    {[corpus |-> c,
      names |-> [i \in 1..n |-> BackendName(c, i)],
      features |-> [i \in 1..n |-> BackendFeature(c, i)],
      feature_names |-> <<"feature_1">>,
      labels |-> [i \in 1..n |-> lab[i]]] :
        n \in 1..MaxInst, lab \in [1..MaxInst -> Range(corpora[c].classes)]}

(***************************************************************************)
(* Dataset.__init__ followed by LabelledDataset.__init__.  x aliases the   *)
(* backend's feature array; the object keeps its address.  truth is a      *)
(* history field: the class name each instance has by the labels it was    *)
(* given and the renamings applied since (never read by an operation).     *)
(***************************************************************************)
speaker_indices_to_group(speakers, speaker_groups) ==
    Concat([s \in 1..Len(speakers) |->
              nonzero([i \in 1..Len(speaker_groups) |->
                          speakers[s] \in speaker_groups[i]])])

LabelledDataset(backend, addr) ==
    LET meta == corpora[backend.corpus]
        speaker_indices == [i \in 1..Len(backend.names) |->
                               Index(meta.speakers, get_speaker(backend.names[i]))]
        to_group == speaker_indices_to_group(meta.speakers, meta.speaker_groups)
        y == [i \in 1..Len(backend.labels) |-> Index(meta.classes, backend.labels[i])]
    IN  [corpus |-> backend.corpus,
         names |-> backend.names,
         features |-> backend.feature_names,
         x |-> addr,
         speakers |-> meta.speakers,
         speaker_indices |-> speaker_indices,
         speaker_counts |-> bincount(speaker_indices, Len(meta.speakers)),
         speaker_groups |-> meta.speaker_groups,
         speaker_group_indices |-> Take(to_group, speaker_indices),
         classes |-> meta.classes,
         y |-> y,
         class_counts |-> bincount(y, 0),
         truth |-> {[of |-> Prefixed(backend.corpus, backend.names[i]),
                     class |-> backend.labels[i]] : i \in 1..Len(backend.names)}]

(***************************************************************************)
(* LabelledDataset.remove_classes.  Every assignment up to the last line   *)
(* has happened when np.bincount raises TypeError on the float64 array     *)
(* that np.array([]) yields when no instance is retained.                  *)
(***************************************************************************)
StrLabels(self) == [i \in 1..Len(self.y) |-> self.classes[self.y[i] + 1]]

\* variant: the membership test of line 564 negated
KeepIdx_negated(self, keep) ==
    nonzero([i \in 1..Len(self.y) |-> StrLabels(self)[i] \notin keep])

KeepIdx(self, keep) ==
    nonzero([i \in 1..Len(self.y) |-> StrLabels(self)[i] \in keep])

remove_classes(self, xs, keep) ==
    LET str_labels == StrLabels(self)
        keep_idx == KeepIdx(self, keep)
        speaker_indices == Take(self.speaker_indices, keep_idx)
        classes == Sorted(keep \cap Range(self.classes))
        kept == SelectSeq(str_labels, LAMBDA l : l \in keep)
        y == [k \in 1..Len(kept) |-> Index(classes, kept[k])]
        upd == [self EXCEPT
                  !.names = Take(self.names, keep_idx),
                  !.speaker_indices = speaker_indices,
                  !.speaker_counts = bincount(speaker_indices, Len(self.speakers)),
                  !.speaker_group_indices = speaker_indices,
                  !.classes = classes,
                  !.y = y]
    IN  IF Len(y) = 0
        THEN [self |-> upd, xs |-> Take(xs, keep_idx), err |-> "TypeError"]
        ELSE [self |-> [upd EXCEPT !.class_counts = bincount(y, 0)],
              xs |-> Take(xs, keep_idx), err |-> "none"]

(***************************************************************************)
(* LabelledDataset.map_classes.  arr_map[self.y] raises IndexError when y  *)
(* is the empty float64 array, before anything is assigned.                *)
(***************************************************************************)
MapGet(map, c) == IF c \in DOMAIN map THEN map[c] ELSE c

\* variant: line 553 without sorted(), the renamed classes in their old order
NewClasses_unsorted(self, map) ==
    LET mapped == [k \in 1..Len(self.classes) |-> MapGet(map, self.classes[k])]
    IN  Take(mapped, nonzero([i \in 1..Len(mapped) |->
                                 \A j \in 1..(i - 1) : mapped[j] # mapped[i]]))

NewClasses(self, map) == Sorted({MapGet(map, c) : c \in Range(self.classes)})

map_classes(self, map) ==
    LET new_classes == NewClasses(self, map)
        arr_map == [k \in 1..Len(self.classes) |->
                       Index(new_classes, MapGet(map, self.classes[k]))]
        y == Take(arr_map, self.y)
    IN  IF Len(self.y) = 0
        THEN [self |-> self, err |-> "IndexError"]
        ELSE [self |-> [self EXCEPT !.y = y,
                                    !.class_counts = bincount(y, 0),
                                    !.classes = new_classes],
              err |-> "none"]

(***************************************************************************)
(* Dataset.normalise.  The normaliser is the caller's transformer; the     *)
(* model uses one that is fitted on the pooled rows it is given and shifts *)
(* them by their minimum, and that rejects an empty buffer as sklearn's    *)
(* input validation does.  Scheme 'all' rebinds x to the transformer's     *)
(* output; scheme 'speaker' writes the rows of each speaker in place.      *)
(***************************************************************************)
Values(buf) == [i \in 1..Len(buf) |-> buf[i].v]

fit_transform(buf) == [i \in 1..Len(buf) |-> [buf[i] EXCEPT !.v = @ - MinOf(Values(buf))]]

\* xs[idx] = fit_transform(xs[idx]) for a list idx of 0-based positions
AssignTransformed(xs, idx) ==
    LET out == fit_transform(Take(xs, idx))
    IN  [i \in 1..Len(xs) |->
           IF \E k \in 1..Len(idx) : idx[k] + 1 = i
           THEN out[CHOOSE k \in 1..Len(idx) : idx[k] + 1 = i]
           ELSE xs[i]]

RECURSIVE NormaliseSpeakers(_, _, _)
NormaliseSpeakers(self, xs, sp) ==
    IF sp >= Len(self.speakers) THEN [xs |-> xs, err |-> "none"]
    ELSE IF self.speaker_counts = Unset THEN [xs |-> xs, err |-> "AttributeError"]
    ELSE IF self.speaker_counts[sp + 1] = 0 THEN NormaliseSpeakers(self, xs, sp + 1)
    ELSE LET idx == nonzero([i \in 1..Len(self.speaker_indices) |->
                                self.speaker_indices[i] = sp])
         IN  NormaliseSpeakers(self, AssignTransformed(xs, idx), sp + 1)

normalise(self, xs, scheme) ==
    IF scheme = "all"
    THEN IF Len(xs) = 0
         THEN [xs |-> xs, rebound |-> FALSE, err |-> "ValueError"]
         ELSE [xs |-> fit_transform(xs), rebound |-> TRUE, err |-> "none"]
    ELSE IF scheme = "speaker"
    THEN NormaliseSpeakers(self, xs, 0) @@ [rebound |-> FALSE]
    ELSE [xs |-> xs, rebound |-> FALSE, err |-> "none"]

(***************************************************************************)
(* CombinedDataset.__init__.  labels is None, a list or a set; a non-empty *)
(* list makes `all_labels - labels` raise TypeError.  _speaker_counts,     *)
(* _class_counts and _corpus_counts are not assigned by the constructor.   *)
(***************************************************************************)
NoLabels == [kind |-> "none", vals |-> {}]

RECURSIVE Sum(_)
Sum(s) == IF Len(s) = 0 THEN 0 ELSE Head(s) + Sum(Tail(s))

\* variant: every instance tagged with corpus 0
repeat_zeros(sizes) == [i \in 1..Sum(sizes) |-> 0]

\* np.repeat(np.arange(len(sizes)), sizes)
repeat_arange(sizes) ==
    Concat([j \in 1..Len(sizes) |-> [k \in 1..sizes[j] |-> j - 1]])

\* d.corpus + '_' + s
PrefixSpeaker(c, s) == <<c, s>>

\* variant: a single source's array is used as it is, without a copy
concatenate_alias(arrs, addrs, fresh) ==
    IF Len(arrs) = 1 THEN [addr |-> addrs[1], xs |-> arrs[1]]
    ELSE [addr |-> fresh, xs |-> Concat(arrs)]

\* np.concatenate: a new array holding the rows of its arguments in order
concatenate(arrs, addrs, fresh) == [addr |-> fresh, xs |-> Concat(arrs)]

CombinedDataset(datasets, arrs, labels, fresh) ==
    LET k == Len(datasets)
        sizes == [j \in 1..k |-> Len(arrs[j])]
        names == Concat([j \in 1..k |->
                    [i \in 1..Len(datasets[j].names) |->
                        Prefixed(datasets[j].corpus, datasets[j].names[i])]])
        sp_off == [j \in 1..k |-> Sum([m \in 1..(j - 1) |-> Len(datasets[m].speakers)])]
        gr_off == [j \in 1..k |-> Sum([m \in 1..(j - 1) |-> Len(datasets[m].speaker_groups)])]
        speakers == Concat([j \in 1..k |->
                       [i \in 1..Len(datasets[j].speakers) |->
                           PrefixSpeaker(datasets[j].corpus, datasets[j].speakers[i])]])
        speaker_groups == Concat([j \in 1..k |->
                       [i \in 1..Len(datasets[j].speaker_groups) |->
                           {PrefixSpeaker(datasets[j].corpus, s) :
                               s \in datasets[j].speaker_groups[i]}]])
        speaker_indices == Concat([j \in 1..k |->
                       [i \in 1..Len(datasets[j].speaker_indices) |->
                           datasets[j].speaker_indices[i] + sp_off[j]]])
        speaker_group_indices == Concat([j \in 1..k |->
                       [i \in 1..Len(datasets[j].speaker_group_indices) |->
                           datasets[j].speaker_group_indices[i] + gr_off[j]]])
        cat == concatenate(arrs, [j \in 1..k |-> datasets[j].x], fresh)
        all_labels == UNION {Range(datasets[j].classes) : j \in 1..k}
        str_labels == Concat([j \in 1..k |-> StrLabels(datasets[j])])
        filtered == labels.vals # {}
        drop_labels == all_labels \ labels.vals
        keep_idx == nonzero([i \in 1..Len(str_labels) |->
                                str_labels[i] \notin drop_labels])
        classes == IF filtered THEN Sorted(labels.vals) ELSE Sorted(all_labels)
        kept == IF filtered
                THEN SelectSeq(str_labels, LAMBDA l : l \notin drop_labels)
                ELSE str_labels
        x_after == IF filtered THEN Take(cat.xs, keep_idx) ELSE cat.xs
        sp_after == IF filtered THEN Take(speaker_indices, keep_idx) ELSE speaker_indices
        self == [built |-> TRUE,
                 corpus |-> "combined",
                 corpora |-> [j \in 1..k |-> datasets[j].corpus],
                 corpus_indices |-> repeat_arange(sizes),
                 names |-> names,
                 features |-> datasets[1].features,
                 x |-> IF filtered THEN fresh ELSE cat.addr,
                 speakers |-> speakers,
                 speaker_indices |-> sp_after,
                 speaker_counts |-> Unset,
                 speaker_groups |-> speaker_groups,
                 speaker_group_indices |-> sp_after,   \* line 660 overwrites line 644
                 classes |-> classes,
                 y |-> [i \in 1..Len(kept) |-> Index(classes, kept[i])],
                 class_counts |-> Unset,
                 corpus_counts |-> Unset,
                 labels |-> labels,
                 truth |-> UNION {datasets[j].truth : j \in 1..k}]
    IN  IF filtered /\ labels.kind = "list"
        THEN [err |-> "TypeError"]
        ELSE [self |-> self, xs |-> x_after, err |-> "none"]

(***************************************************************************)
(* CombinedDataset.normalise: scheme 'corpus' writes the rows of each      *)
(* source corpus in place, one corpus after the other; x[idx] raises       *)
(* IndexError when corpus_indices names a row x no longer has.  Any other  *)
(* scheme is Dataset.normalise.                                            *)
(***************************************************************************)
RECURSIVE NormaliseCorpora(_, _, _)
NormaliseCorpora(self, xs, corpus) ==
    IF corpus >= Len(self.corpora) THEN [xs |-> xs, err |-> "none"]
    ELSE LET idx == nonzero([i \in 1..Len(self.corpus_indices) |->
                                self.corpus_indices[i] = corpus])
         IN  IF \E k \in 1..Len(idx) : idx[k] >= Len(xs)
             THEN [xs |-> xs, err |-> "IndexError"]
             ELSE IF Len(idx) = 0
             THEN [xs |-> xs, err |-> "ValueError"]
             ELSE NormaliseCorpora(self, AssignTransformed(xs, idx), corpus + 1)

combined_normalise(self, xs, scheme) ==
    IF scheme = "corpus"
    THEN NormaliseCorpora(self, xs, 0) @@ [rebound |-> FALSE]
    ELSE normalise(self, xs, scheme)

\* CombinedDataset.corpus_counts: computed on first read, then cached
corpus_counts(self) ==
    IF self.corpus_counts = Unset
    THEN bincount(self.corpus_indices, 0)
    ELSE self.corpus_counts

\* CombinedDataset.get_corpus_split; corpus_to_idx raises ValueError for a
\* corpus that is not one of the sources
get_corpus_split(self, corpus) ==
    IF corpus \notin Range(self.corpora)
    THEN [err |-> "ValueError"]
    ELSE LET c == Index(self.corpora, corpus)
             n == Len(self.corpus_indices)
             cond == [i \in 1..n |-> self.corpus_indices[i] = c]
         IN  [corpus_idx |-> nonzero(cond),
              other_idx |-> nonzero([i \in 1..n |-> ~cond[i]]),
              err |-> "none"]

(***************************************************************************)
(* Arrays with more than one row per instance.  A feature array is a       *)
(* record: kind "2d" (N x F; data is the list of the N rows), "3d"         *)
(* (N x T x F; data is the list of N lists of T rows), "object" (numpy     *)
(* array of dtype object; data is the list of the N arrays of rows) or     *)
(* "list" (a Python list of arrays, which has neither dtype nor shape).    *)
(* A row is one F-vector; no operation here looks inside a row except the  *)
(* transformer.                                                            *)
(***************************************************************************)
\* np.cumsum(slices)
cumsum(slices) == [i \in 1..Len(slices) |-> Sum(SubSeq(slices, 1, i))]

\* np.split(x, indices, axis=0): Len(indices) + 1 parts, x[0:i1], x[i1:i2],
\* ..., x[ik:]; a bound beyond the end of x is clipped as slicing clips it
np_split(x, indices) ==
    LET lo(k) == IF k = 1 THEN 0 ELSE indices[k - 1]
        hi(k) == IF k = Len(indices) + 1 THEN Len(x) ELSE indices[k]
        clip(v) == IF v > Len(x) THEN Len(x) ELSE v
    IN  [k \in 1..(Len(indices) + 1) |-> SubSeq(x, clip(lo(k)) + 1, clip(hi(k)))]

\* indices[:-1]
ButLast(s) == SubSeq(s, 1, Len(s) - 1)

\* _make_flat: np.concatenate raises ValueError for an empty sequence
_make_flat(a) ==
    IF Len(a) = 0
    THEN [flat |-> <<>>, slices |-> <<>>, err |-> "ValueError"]
    ELSE [flat |-> Concat(a), slices |-> [i \in 1..Len(a) |-> Len(a[i])], err |-> "none"]

\* variant: line 164 splitting at every cumulative offset, the last included
_make_ragged_every_offset(flat, slices) == np_split(flat, cumsum(slices))

\* _make_ragged: the result is a Python list of arrays
_make_ragged(flat, slices) == np_split(flat, ButLast(cumsum(slices)))

\* _reshape_data_array.  x[0] raises IndexError when x has no rows.
_reshape_data_array(x, slices) ==
    IF Len(x) = Len(slices)
    THEN [x |-> [kind |-> "2d", data |-> x], err |-> "none"]
    ELSE IF Len(slices) = 0
    THEN [x |-> [kind |-> "2d", data |-> x], err |-> "IndexError"]
    ELSE IF \A i \in 1..Len(slices) : slices[i] = slices[1]
    THEN IF Len(x) % Len(slices) # 0
         THEN [x |-> [kind |-> "2d", data |-> x], err |-> "AssertionError"]
         ELSE IF Len(x) = 0
         THEN [x |-> [kind |-> "2d", data |-> x], err |-> "IndexError"]
         ELSE LET seq_len == Len(x) \div Len(slices)
              IN  [x |-> [kind |-> "3d",
                          data |-> [i \in 1..Len(slices) |->
                                      SubSeq(x, (i - 1) * seq_len + 1, i * seq_len)]],
                   err |-> "none"]
    ELSE [x |-> [kind |-> "object", data |-> np_split(x, ButLast(cumsum(slices)))],
          err |-> "none"]

(***************************************************************************)
(* Dataset.normalise over every kind of x.  A 2-D x takes the branches     *)
(* modelled by normalise above.  With scheme 'all' a 3-D or object x is    *)
(* flattened, transformed and rebound to what _make_ragged returns, a      *)
(* Python list; reading .dtype of a list raises AttributeError.  With      *)
(* scheme 'speaker' the list _make_ragged returns is assigned to x[idx];   *)
(* whether numpy accepts a list of arrays as the value for the selected    *)
(* elements of an object array depends on the numpy version and on the     *)
(* shapes, so the caller supplies the outcome (assignable).                *)
(***************************************************************************)
\* data[idx] = parts for a list idx of 0-based positions
AssignParts(data, idx, parts) ==
    [i \in 1..Len(data) |->
       IF \E k \in 1..Len(idx) : idx[k] + 1 = i
       THEN parts[CHOOSE k \in 1..Len(idx) : idx[k] + 1 = i]
       ELSE data[i]]

RECURSIVE NormaliseSpeakersSeq(_, _, _, _)
NormaliseSpeakersSeq(self, a, sp, assignable) ==
    IF sp >= Len(self.speakers) THEN [x |-> a, err |-> "none"]
    ELSE IF self.speaker_counts[sp + 1] = 0
    THEN NormaliseSpeakersSeq(self, a, sp + 1, assignable)
    ELSE LET idx == nonzero([i \in 1..Len(self.speaker_indices) |->
                                self.speaker_indices[i] = sp])
             r == _make_flat(Take(a.data, idx))
         IN  IF r.err # "none" THEN [x |-> a, err |-> r.err]
             ELSE IF Len(r.flat) = 0 THEN [x |-> a, err |-> "ValueError"]
             ELSE IF a.kind = "object" /\ ~assignable THEN [x |-> a, err |-> "ValueError"]
             ELSE NormaliseSpeakersSeq(
                      self,
                      [a EXCEPT !.data = AssignParts(a.data, idx,
                                             _make_ragged(fit_transform(r.flat), r.slices))],
                      sp + 1, assignable)

normalise_any(self, a, scheme, assignable) ==
    IF a.kind = "2d"
    THEN LET r == normalise(self, a.data, scheme)
         IN  [x |-> [a EXCEPT !.data = r.xs], err |-> r.err]
    ELSE IF scheme = "all"
    THEN IF a.kind = "list" THEN [x |-> a, err |-> "AttributeError"]
         ELSE LET r == _make_flat(a.data)
              IN  IF r.err # "none" THEN [x |-> a, err |-> r.err]
                  ELSE IF Len(r.flat) = 0 THEN [x |-> a, err |-> "ValueError"]
                  ELSE [x |-> [kind |-> "list",
                               data |-> _make_ragged(fit_transform(r.flat), r.slices)],
                        err |-> "none"]
    ELSE IF scheme = "speaker"
    THEN IF a.kind = "list"
         THEN [x |-> a,
               err |-> IF \E sp \in 1..Len(self.speakers) : self.speaker_counts[sp] # 0
                       THEN "AttributeError" ELSE "none"]
         ELSE NormaliseSpeakersSeq(self, a, 0, assignable)
    ELSE [x |-> a, err |-> "none"]

(***************************************************************************)
(* LabelledDataset.binarise.  labels is the dictionary _labels, a function *)
(* from its keys to label vectors.  sklearn's label_binarize returns one   *)
(* column per class, and a single column (1 for the second class) when     *)
(* there are two classes; releases of sklearn that take classes by keyword *)
(* only reject the positional call of line 537 with TypeError              *)
(* (positional tells which release runs).  enumerate yields (index, name)  *)
(* pairs, so in the comprehension of line 539 c is the index and i the     *)
(* class NAME: binary_y[:, i] subscripts an array with a string and raises *)
(* IndexError at the first class, before _labels is updated.               *)
(***************************************************************************)
label_binarize(y, classes) ==
    IF Len(classes) = 2
    THEN [i \in 1..Len(y) |-> <<IF y[i] = classes[2] THEN 1 ELSE 0>>]
    ELSE [i \in 1..Len(y) |-> [j \in 1..Len(classes) |-> IF y[i] = classes[j] THEN 1 ELSE 0]]

\* np.arange(n)
arange(n) == [k \in 1..n |-> k - 1]

\* arousal_map[self.y] for the map of the positive classes pos
PositiveMap(self, pos) ==
    Take([k \in 1..Len(self.classes) |-> IF self.classes[k] \in Range(pos) THEN 1 ELSE 0],
         self.y)

binarise(self, pos_val, pos_aro, positional) ==
    IF ~positional THEN [self |-> self, err |-> "TypeError"]
    ELSE LET bin == [self EXCEPT !.binary_y = label_binarize(self.y, arange(Len(self.classes)))]
         IN  IF Len(self.classes) > 0 THEN [self |-> bin, err |-> "IndexError"]
             ELSE IF Len(pos_aro) > 0 /\ Len(pos_val) > 0
             THEN [self |-> [bin EXCEPT !.labels =
                               [k \in DOMAIN bin.labels \cup {"arousal", "valence"} |->
                                  IF k = "arousal" THEN PositiveMap(self, pos_aro)
                                  ELSE IF k = "valence" THEN PositiveMap(self, pos_val)
                                  ELSE bin.labels[k]]],
                   err |-> "none"]
             ELSE [self |-> bin, err |-> "none"]

(***************************************************************************)
(* Construction from a path.  A file is a record: suffixes (Path.suffixes  *)
(* of its path), names (the instance names in file order: the filename     *)
(* variable of a container, the lines of an audio manifest, the instance   *)
(* keys of an ARFF file), corpus (the corpus attribute of a container,     *)
(* "" if it has none; the relation of an ARFF file; the parent directory   *)
(* of a manifest), has_labels (a label_nominal variable, or a labels.csv   *)
(* next to the manifest) and labels (name -> label; for a manifest the     *)
(* annotations of labels.csv, which may cover only some names).            *)
(* cls holds the attributes DatasetBackend defines at CLASS level,         *)
(* _names and _feature_names: one list object each, shared by every        *)
(* backend instance that has not assigned the attribute itself.  A backend *)
(* records which of its two lists IS the class-level list (names_shared,   *)
(* feature_names_shared); its names and feature_names fields then hold the *)
(* list as it was when the constructor ended.                              *)
(***************************************************************************)
\* labels is None
None == <<"None">>

NoBackend == [corpus |-> "", names |-> <<>>, feature_names |-> <<>>,
              features |-> [kind |-> "2d", data |-> <<>>], labels |-> None,
              names_shared |-> FALSE, feature_names_shared |-> FALSE]

\* the decoded content of instance n: one row
Signal(n) == [of |-> Prefixed("A", n), t |-> 1, v |-> 2 * n.k + 1]

\* sorted(): Python compares the names as strings; the names of the model
\* are ordered by their number k
RECURSIVE sorted(_)
sorted(s) ==
    IF Len(s) = 0 THEN <<>>
    ELSE LET m == CHOOSE i \in 1..Len(s) : \A j \in 1..Len(s) : s[i].k <= s[j].k
         IN  <<s[m]>> \o sorted(SubSeq(s, 1, m - 1) \o SubSeq(s, m + 1, Len(s)))

\* NetCDFBackend.__init__: the container is closed on the last line only;
\* open tells whether the handle is still open when the constructor ends
NetCDFBackend(f) ==
    IF f.corpus = ""
    THEN [backend |-> NoBackend, err |-> "AttributeError", open |-> TRUE]
    ELSE LET x == [i \in 1..Len(f.names) |-> Signal(f.names[i])]
             slices == [i \in 1..Len(f.names) |-> 1]
             r == _reshape_data_array(x, slices)
         IN  IF r.err # "none"
             THEN [backend |-> NoBackend, err |-> r.err, open |-> TRUE]
             ELSE [backend |-> [corpus |-> f.corpus,
                                names |-> f.names,
                                feature_names |-> <<"feature_1">>,
                                features |-> r.x,
                                labels |-> IF f.has_labels
                                           THEN [i \in 1..Len(f.names) |-> f.labels[f.names[i]]]
                                           ELSE None,
                                names_shared |-> FALSE,
                                feature_names_shared |-> FALSE],
                   err |-> "none", open |-> FALSE]

\* line 281
LabelledNames(names, annotations) ==
    sorted(SelectSeq(names, LAMBDA n : n \in DOMAIN annotations))

\* RawAudioBackend.__init__: self.names and self.feature_names are the
\* class-level lists until the instance assigns _names on line 281; every
\* reader (get_audio_paths, soundfile.read, read_csv) closes its file
RawAudioBackend(f, class) ==
    LET feature_names == class.feature_names \o <<"pcm">>
        names == class.names \o f.names
        features == [kind |-> "object",
                     data |-> [i \in 1..Len(f.names) |-> <<Signal(f.names[i])>>]]
        selected == LabelledNames(names, f.labels)
    IN  [backend |-> [corpus |-> f.corpus,
                      names |-> IF f.has_labels THEN selected ELSE names,
                      feature_names |-> feature_names,
                      features |-> features,
                      labels |-> IF f.has_labels
                                 THEN [i \in 1..Len(selected) |-> f.labels[selected[i]]]
                                 ELSE None,
                      names_shared |-> ~f.has_labels,
                      feature_names_shared |-> TRUE],
         class |-> [names |-> names, feature_names |-> feature_names],
         err |-> "none", open |-> FALSE]

\* ARFFBackend.__init__: the file is read inside a with block.  slices is
\* np.array(counts.values()), a 0-dimensional object array holding the
\* dict view, and len(slices) in _reshape_data_array raises TypeError.
ARFFBackend(f) == [backend |-> NoBackend, err |-> "TypeError", open |-> FALSE]

\* Path.suffix
suffix(f) == IF Len(f.suffixes) = 0 THEN "" ELSE f.suffixes[Len(f.suffixes)]

\* the dispatch of Dataset.__init__ (lines 311-318); read tells whether a
\* backend constructor was entered
OpenBackend(f, class) ==
    IF suffix(f) = ".nc" THEN NetCDFBackend(f) @@ [class |-> class, read |-> TRUE]
    ELSE IF suffix(f) = ".txt" THEN RawAudioBackend(f, class) @@ [read |-> TRUE]
    ELSE IF Len(f.suffixes) = 0
    THEN [backend |-> NoBackend, err |-> "IndexError", open |-> FALSE,
          class |-> class, read |-> FALSE]
    ELSE IF f.suffixes[1] = ".arff" THEN ARFFBackend(f) @@ [class |-> class, read |-> TRUE]
    ELSE [backend |-> NoBackend, err |-> "NotImplementedError", open |-> FALSE,
          class |-> class, read |-> FALSE]

\* LabelledDataset(path): Dataset.__init__, then the labels to y.  A label
\* outside the classes makes list.index raise ValueError; labels None is
\* not iterable; no label at all makes np.bincount raise on a float array.
Construct(f, class) ==
    LET b == OpenBackend(f, class)
        failed(e) == [b EXCEPT !.err = e] @@ [built |-> FALSE]
    IN  IF b.err # "none" THEN b @@ [built |-> FALSE]
        ELSE IF b.backend.corpus \notin CorpusIds THEN failed("NotImplementedError")
        ELSE IF b.backend.labels = None THEN failed("TypeError")
        ELSE IF \E i \in 1..Len(b.backend.labels) :
                   b.backend.labels[i] \notin Range(corpora[b.backend.corpus].classes)
        THEN failed("ValueError")
        ELSE IF Len(b.backend.labels) = 0 THEN failed("TypeError")
        ELSE b @@ [built |-> TRUE,
                   self |-> [LabelledDataset(b.backend, "A") EXCEPT
                               !.x = b.backend.features]]

(***************************************************************************)
(* Inputs of the calls.                                                    *)
(***************************************************************************)
EmptyMap == [c \in {} |-> c]

KeepSets == {{"angry", "happy"}, {"happy", "sad"}, {"neutral"}}

Mappings == {EmptyMap,
             [c \in {"angry", "happy"} |-> IF c = "angry" THEN "sad" ELSE "neutral"]}

Schemes == {"all", "speaker", "corpus"}

\* scheme 'corpus' is a scheme of the CombinedDataset only
SchemesOf(o) == IF o = "combined" THEN Schemes ELSE Schemes \ {"corpus"}

Orders == {<<"A">>, <<"A", "B">>, <<"B", "A">>}

LabelArgs == {NoLabels,
              [kind |-> "list", vals |-> {"sad"}],
              [kind |-> "set", vals |-> {"neutral", "sad"}]}

(***************************************************************************)
(* State.  ds: the source LabelledDataset of each corpus; comb: the        *)
(* CombinedDataset (built = FALSE before it is constructed); heap: the     *)
(* feature arrays by address; split: what get_corpus_split returned last;  *)
(* last: the call made last; nops: the number of calls made.  Two fields   *)
(* of an object are history only and are read by no operation: labels (the *)
(* allow-list the CombinedDataset was constructed with) and truth.         *)
(***************************************************************************)
Addr == CorpusIds \cup {"combined"}

ObjIds == CorpusIds \cup {"combined"}

NoCombined == [built |-> FALSE]

NoCall == [op |-> "construct", obj |-> "", keep |-> {}, map |-> EmptyMap, scheme |-> "",
           order |-> <<>>, labels |-> NoLabels, corpus |-> "", pos_val |-> <<>>,
           pos_aro |-> <<>>]

NoSplit == [corpus_idx |-> <<>>, other_idx |-> <<>>]

\* the variables of the container scenario (SpecArrays) and their value in
\* a run that loads no container
arrvars == <<nc, obj, flattened, ragged>>

NoContainer == [data |-> <<>>]

NoDataset == [built |-> FALSE]

NoFlat == [made |-> FALSE]

NoRagged == [made |-> FALSE]

ArraysIdle == nc = NoContainer /\ obj = NoDataset /\ flattened = NoFlat /\ ragged = NoRagged

\* the variables of the construction scenario (SpecLoad) and their value in
\* a run that constructs nothing from a path
loadvars == <<file, handles, cls, loaded>>

NoFile == [suffixes |-> <<>>, names |-> <<>>]

NoClassState == [names |-> <<>>, feature_names |-> <<>>]

NoLoaded == [built |-> FALSE, read |-> FALSE, backend |-> NoBackend, self |-> NoDataset,
             earlier |-> <<>>]

LoadIdle == file = NoFile /\ handles = {} /\ cls = NoClassState /\ loaded = NoLoaded

\* the variables no operation of Spec reads or writes
elsewhere == <<arrvars, loadvars>>

ElsewhereIdle == ArraysIdle /\ LoadIdle

Obj(o) == IF o = "combined" THEN comb ELSE ds[o]

Live(o) == o \in CorpusIds \/ comb.built

Referenced == {Obj(o).x : o \in {p \in ObjIds : Live(p)}}

\* the address a newly created array of object o gets: the one its old array
\* frees, unless another object still holds that array
NewAddr(o) ==
    IF Live(o) /\ \A p \in ObjIds \ {o} : Live(p) => Obj(p).x # Obj(o).x
    THEN Obj(o).x
    ELSE IF o \notin Referenced THEN o
    ELSE CHOOSE a \in Addr : a \notin Referenced

Init ==
    /\ \E bA \in Backends("A"), bB \in Backends("B") :
          /\ ds = [c \in CorpusIds |->
                     LabelledDataset(IF c = "A" THEN bA ELSE bB, c)]
          /\ heap = [a \in Addr |->
                       IF a = "A" THEN bA.features
                       ELSE IF a = "B" THEN bB.features ELSE <<>>]
    /\ comb = NoCombined
    /\ err = "none"
    /\ last = NoCall
    /\ nops = 0
    /\ split = NoSplit
    /\ ElsewhereIdle

Ready == err = "none" /\ nops < MaxOps

\* store object o's record; an array no object holds any more is reclaimed
Store(o, rec, addr, xs) ==
    /\ IF o = "combined"
       THEN comb' = [rec EXCEPT !.x = addr] /\ UNCHANGED ds
       ELSE ds' = [ds EXCEPT ![o] = [rec EXCEPT !.x = addr]] /\ UNCHANGED comb
    /\ heap' = [a \in Addr |->
                  IF a = addr THEN xs
                  ELSE IF \E p \in ObjIds \ {o} : Live(p) /\ Obj(p).x = a THEN heap[a]
                  ELSE <<>>]

RemoveClasses(o, keep) ==
    /\ Ready /\ Live(o)
    /\ LET r == remove_classes(Obj(o), heap[Obj(o).x], keep)
           retained == {t \in Obj(o).truth : t.class \in keep}
       IN  /\ Store(o, [r.self EXCEPT !.truth = retained], NewAddr(o), r.xs)
           /\ err' = r.err
    /\ last' = [NoCall EXCEPT !.op = "remove_classes", !.obj = o, !.keep = keep]
    /\ nops' = nops + 1
    /\ UNCHANGED <<split, elsewhere>>

MapClasses(o, map) ==
    /\ Ready /\ Live(o)
    /\ LET r == map_classes(Obj(o), map)
           renamed == {[t EXCEPT !.class = MapGet(map, @)] : t \in Obj(o).truth}
       IN  /\ Store(o, IF r.err = "none" THEN [r.self EXCEPT !.truth = renamed] ELSE r.self,
                    Obj(o).x, heap[Obj(o).x])
           /\ err' = r.err
    /\ last' = [NoCall EXCEPT !.op = "map_classes", !.obj = o, !.map = map]
    /\ nops' = nops + 1
    /\ UNCHANGED <<split, elsewhere>>

Normalise(o, scheme) ==
    /\ Ready /\ Live(o)
    /\ LET r == IF o = "combined"
                THEN combined_normalise(Obj(o), heap[Obj(o).x], scheme)
                ELSE normalise(Obj(o), heap[Obj(o).x], scheme)
       IN  /\ Store(o, Obj(o), IF r.rebound THEN NewAddr(o) ELSE Obj(o).x, r.xs)
           /\ err' = r.err
    /\ last' = [NoCall EXCEPT !.op = "normalise", !.obj = o, !.scheme = scheme]
    /\ nops' = nops + 1
    /\ UNCHANGED <<split, elsewhere>>

Combine(order, labels) ==
    /\ Ready /\ ~comb.built
    /\ LET r == CombinedDataset([j \in 1..Len(order) |-> ds[order[j]]],
                                [j \in 1..Len(order) |-> heap[ds[order[j]].x]],
                                labels, NewAddr("combined"))
       IN  /\ IF r.err = "none"
              THEN Store("combined", r.self, r.self.x, r.xs)
              ELSE UNCHANGED <<ds, comb, heap>>
           /\ err' = r.err
    /\ last' = [NoCall EXCEPT !.op = "combine", !.obj = "combined", !.order = order,
                              !.labels = labels]
    /\ nops' = nops + 1
    /\ UNCHANGED <<split, elsewhere>>

CorpusCounts ==
    /\ Ready /\ comb.built
    /\ comb' = [comb EXCEPT !.corpus_counts = corpus_counts(comb)]
    /\ last' = [NoCall EXCEPT !.op = "corpus_counts", !.obj = "combined"]
    /\ nops' = nops + 1
    /\ UNCHANGED <<ds, heap, err, split, elsewhere>>

GetCorpusSplit(corpus) ==
    /\ Ready /\ comb.built
    /\ LET r == get_corpus_split(comb, corpus)
       IN  /\ err' = r.err
           /\ split' = IF r.err = "none"
                       THEN [corpus_idx |-> r.corpus_idx, other_idx |-> r.other_idx]
                       ELSE split
    /\ last' = [NoCall EXCEPT !.op = "get_corpus_split", !.obj = "combined",
                              !.corpus = corpus]
    /\ nops' = nops + 1
    /\ UNCHANGED <<ds, comb, heap, elsewhere>>

Next ==
    \/ \E o \in ObjIds, keep \in KeepSets : RemoveClasses(o, keep)
    \/ \E o \in ObjIds, map \in Mappings : MapClasses(o, map)
    \/ \E o \in ObjIds : \E scheme \in SchemesOf(o) : Normalise(o, scheme)
    \/ \E order \in Orders, labels \in LabelArgs : Combine(order, labels)
    \/ CorpusCounts
    \/ \E corpus \in CorpusIds : GetCorpusSplit(corpus)

Spec == Init /\ [][Next]_vars

(***************************************************************************)
(* The container scenario.  nc: the contents of one container-format file  *)
(* of corpus A (data: the per-instance arrays it was written from; x: the  *)
(* flat buffer; slices: the length vector); obj: the LabelledDataset       *)
(* loaded from it, its x held by value; flattened, ragged: what _make_flat *)
(* and _make_ragged returned.  flattened.a is history only (the argument). *)
(***************************************************************************)
MaxLen == 2     \* rows one instance contributes to the flat buffer (0..MaxLen)

ContainerRow(i, t) ==
    [of |-> Prefixed("A", BackendName("A", i)), t |-> t, v |-> 2 * i + t]

Containers ==
    {[corpus |-> "A",
      names |-> [i \in 1..n |-> BackendName("A", i)],
      feature_names |-> <<"feature_1">>,
      data |-> [i \in 1..n |-> [t \in 1..len[i] |-> ContainerRow(i, t)]],
      x |-> Concat([i \in 1..n |-> [t \in 1..len[i] |-> ContainerRow(i, t)]]),
      slices |-> [i \in 1..n |-> len[i]],
      labels |-> [i \in 1..n |-> lab[i]]] :
        n \in 1..MaxInst, len \in [1..MaxInst -> 0..MaxLen],
        lab \in [1..MaxInst -> Range(corpora["A"].classes)]}

dsvars == <<ds, comb, heap, split>>

DatasetsIdle == ds = <<>> /\ comb = NoCombined /\ heap = <<>> /\ split = NoSplit

InitArrays ==
    /\ nc \in Containers
    /\ obj = NoDataset
    /\ flattened = NoFlat
    /\ ragged = NoRagged
    /\ err = "none"
    /\ last = NoCall
    /\ nops = 0
    /\ DatasetsIdle
    /\ LoadIdle

\* NetCDFBackend.__init__ and LabelledDataset.__init__ on the container
LoadContainer ==
    /\ err = "none" /\ ~obj.built
    /\ LET r == _reshape_data_array(nc.x, nc.slices)
       IN  /\ err' = r.err
           /\ obj' = IF r.err = "none"
                     THEN [LabelledDataset(nc, "A") EXCEPT !.x = r.x]
                              @@ [built |-> TRUE,
                                  labels |-> [k \in {"all"} |-> LabelledDataset(nc, "A").y],
                                  binary_y |-> Unset]
                     ELSE obj
    /\ last' = [NoCall EXCEPT !.op = "load", !.obj = "A"]
    /\ UNCHANGED <<nops, nc, flattened, ragged, dsvars, loadvars>>

NormaliseLoaded(scheme, assignable) ==
    /\ Ready /\ obj.built
    /\ LET r == normalise_any(obj, obj.x, scheme, assignable)
       IN  /\ obj' = [obj EXCEPT !.x = r.x]
           /\ err' = r.err
    /\ last' = [NoCall EXCEPT !.op = "normalise", !.obj = "A", !.scheme = scheme]
    /\ nops' = nops + 1
    /\ UNCHANGED <<nc, flattened, ragged, dsvars, loadvars>>

\* the positive-class lists passed to binarise
PositiveLists == {<<>>, <<"happy">>}

Binarise(pos_val, pos_aro, positional) ==
    /\ Ready /\ obj.built
    /\ LET r == binarise(obj, pos_val, pos_aro, positional)
       IN  /\ obj' = r.self
           /\ err' = r.err
    /\ last' = [NoCall EXCEPT !.op = "binarise", !.obj = "A", !.pos_val = pos_val,
                              !.pos_aro = pos_aro]
    /\ nops' = nops + 1
    /\ UNCHANGED <<nc, flattened, ragged, dsvars, loadvars>>

MakeFlat ==
    /\ err = "none" /\ ~flattened.made
    /\ LET r == _make_flat(nc.data)
       IN  /\ flattened' = [made |-> TRUE, a |-> nc.data, flat |-> r.flat, slices |-> r.slices]
           /\ err' = r.err
    /\ UNCHANGED <<last, nops, nc, obj, ragged, dsvars, loadvars>>

MakeRagged ==
    /\ err = "none" /\ flattened.made /\ ~ragged.made
    /\ ragged' = [made |-> TRUE, arrs |-> _make_ragged(flattened.flat, flattened.slices)]
    /\ UNCHANGED <<err, last, nops, nc, obj, flattened, dsvars, loadvars>>

NextArrays ==
    \/ LoadContainer
    \/ \E scheme \in {"all", "speaker"}, assignable \in BOOLEAN :
          NormaliseLoaded(scheme, assignable)
    \/ \E pos_val \in PositiveLists, pos_aro \in PositiveLists, positional \in BOOLEAN :
          Binarise(pos_val, pos_aro, positional)
    \/ MakeFlat
    \/ MakeRagged

SpecArrays == InitArrays /\ [][NextArrays]_vars

(***************************************************************************)
(* The construction scenario: LabelledDataset(path) is called on files of  *)
(* every type, one call after another in one process.  file: the file the  *)
(* last call was given; handles: the files whose handle is open; loaded:   *)
(* the object the last call returned (built = FALSE if it raised), with    *)
(* its backend, and in earlier the backends of the objects the calls       *)
(* before it returned, each with the file it was constructed from; cls:    *)
(* the class-level lists of DatasetBackend.                                *)
(***************************************************************************)
LoadName(i) == BackendName("A", i)

\* the label labels.csv gives instance number k
Annotation(k) == IF k % 2 = 1 THEN "happy" ELSE "sad"

\* the orders a file lists its instances in: ascending and descending
NameOrders ==
    {[i \in 1..n |-> LoadName(i)] : n \in 1..MaxInst}
        \cup {[i \in 1..n |-> LoadName(n + 1 - i)] : n \in 1..MaxInst}

ContainerFiles ==
    {[suffixes |-> <<".nc">>,
      names |-> [i \in 1..n |-> LoadName(i)],
      corpus |-> c,
      has_labels |-> h,
      labels |-> [m \in {LoadName(i) : i \in 1..n} |-> lab[m.k]]] :
        n \in 1..MaxInst, c \in {"", "A", "Z"}, h \in BOOLEAN,
        lab \in [1..MaxInst -> {"happy", "unknown"}]}

ManifestFiles ==
    {[suffixes |-> <<".txt">>,
      names |-> order,
      corpus |-> "A",
      has_labels |-> TRUE,
      labels |-> [m \in {LoadName(i) : i \in S} |-> Annotation(m.k)]] :
        order \in NameOrders, S \in SUBSET (1..MaxInst)}
        \cup {[suffixes |-> <<".txt">>,
               names |-> order,
               corpus |-> "A",
               has_labels |-> FALSE,
               labels |-> [m \in {} |-> ""]] : order \in NameOrders}

ArffFiles ==
    {[suffixes |-> sfx,
      names |-> [i \in 1..n |-> LoadName(i)],
      corpus |-> "A",
      has_labels |-> TRUE,
      labels |-> [m \in {LoadName(i) : i \in 1..n} |-> Annotation(m.k)]] :
        sfx \in {<<".arff">>, <<".arff", ".bin">>}, n \in 1..MaxInst}

OtherFiles ==
    {[suffixes |-> sfx,
      names |-> <<LoadName(1)>>,
      corpus |-> "A",
      has_labels |-> TRUE,
      labels |-> [m \in {LoadName(1)} |-> Annotation(m.k)]] :
        sfx \in {<<>>, <<".csv">>, <<".b", ".arff">>}}

Files == ContainerFiles \cup ManifestFiles \cup ArffFiles \cup OtherFiles

InitLoad ==
    /\ file = NoFile
    /\ handles = {}
    /\ cls = NoClassState
    /\ loaded = NoLoaded
    /\ err = "none"
    /\ last = NoCall
    /\ nops = 0
    /\ DatasetsIdle
    /\ ArraysIdle

LoadFile(f) ==
    /\ Ready
    /\ LET r == Construct(f, cls)
       IN  /\ cls' = r.class
           /\ handles' = IF r.open THEN handles \cup {f} ELSE handles
           /\ loaded' = [built |-> r.built, read |-> r.read, backend |-> r.backend,
                         self |-> IF r.built THEN r.self ELSE NoDataset,
                         earlier |-> IF loaded.built
                                     THEN Append(loaded.earlier,
                                                 [file |-> file, backend |-> loaded.backend])
                                     ELSE loaded.earlier]
           /\ err' = r.err
    /\ file' = f
    /\ last' = [NoCall EXCEPT !.op = "load", !.obj = "A"]
    /\ nops' = nops + 1
    /\ UNCHANGED <<dsvars, arrvars>>

NextLoad == \E f \in Files : LoadFile(f)

SpecLoad == InitLoad /\ [][NextLoad]_vars

(***************************************************************************)
(* Vocabulary of the properties.                                           *)
(***************************************************************************)
XOf(o) == heap[Obj(o).x]

\* the identity of the instance an instance name of object o denotes
Ident(o, n) == IF o = "combined" THEN n ELSE Prefixed(o, n)

\* the speaker of an instance, as object o spells it
SpeakerOf(o, id) ==
    IF o = "combined" THEN PrefixSpeaker(id.corpus, get_speaker(id.n))
    ELSE get_speaker(id.n)

TruthClass(o, id) == (CHOOSE t \in Obj(o).truth : t.of = id).class

Rank(c) == CHOOSE i \in 1..Len(ClassUniverse) : ClassUniverse[i] = c

\* a list of class names in strictly increasing lexicographic order
StrictlySorted(cl) == \A k \in 1..(Len(cl) - 1) : Rank(cl[k]) < Rank(cl[k + 1])

ClassAt(r, i) == r.classes[r.y[i] + 1]

\* the k-th smallest element of a finite set of integers
RECURSIVE Ascending(_)
Ascending(S) ==
    IF S = {} THEN <<>>
    ELSE LET m == CHOOSE v \in S : \A w \in S : v <= w
         IN  <<m>> \o Ascending(S \ {m})

Aligned(o) ==
    LET r == Obj(o)
        xs == XOf(o)
        n == Len(r.names)
    IN  /\ Len(xs) = n
        /\ Len(r.y) = n
        /\ Len(r.speaker_indices) = n
        /\ Len(r.speaker_group_indices) = n
        /\ \A i \in 1..n :
              /\ xs[i].of = Ident(o, r.names[i])
              /\ r.y[i] + 1 \in 1..Len(r.classes)
              /\ ClassAt(r, i) = TruthClass(o, Ident(o, r.names[i]))
              /\ r.speaker_indices[i] + 1 \in 1..Len(r.speakers)
              /\ r.speakers[r.speaker_indices[i] + 1] = SpeakerOf(o, Ident(o, r.names[i]))

\* C1: in every state reached by constructing a LabelledDataset or a
\* CombinedDataset and applying remove_classes and map_classes, names, x, y,
\* speaker_indices and speaker_group_indices have one length N and position i
\* of each describes the same instance (name, features, class name, speaker).
C1_AlignmentInvariant ==
    err = "none" => \A o \in ObjIds : Live(o) => Aligned(o)

\* C2: after remove_classes(keep) the retained instances are exactly those
\* whose class name was in keep, in their original order; classes is the sorted
\* intersection of keep and the previous classes; every retained instance keeps
\* its class name, which is in keep.
C2_RemoveClassesFilters ==
    [][\A o \in ObjIds :
          (last'.op = "remove_classes" /\ last'.obj = o /\ nops' = nops + 1
              /\ err' = "none")
          => LET pre == Obj(o)
                 post == IF o = "combined" THEN comb' ELSE ds'[o]
                 keep == last'.keep
                 ret == Ascending({i \in 1..Len(pre.y) : ClassAt(pre, i) \in keep})
             IN  /\ Len(post.names) = Len(ret)
                 /\ Len(post.y) = Len(ret)
                 /\ Len(heap'[post.x]) = Len(ret)
                 /\ Len(post.speaker_indices) = Len(ret)
                 /\ StrictlySorted(post.classes)
                 /\ Range(post.classes) = keep \cap Range(pre.classes)
                 /\ \A k \in 1..Len(ret) :
                       /\ post.names[k] = pre.names[ret[k]]
                       /\ heap'[post.x][k] = heap[pre.x][ret[k]]
                       /\ post.speaker_indices[k] = pre.speaker_indices[ret[k]]
                       /\ ClassAt(post, k) = ClassAt(pre, ret[k])
                       /\ ClassAt(post, k) \in keep]_vars

\* a source of two instances lost one of them to remove_classes and kept the other
C2_Witness ==
    /\ last.op = "remove_classes" /\ last.obj = "A" /\ err = "none"
    /\ last.keep = {"angry", "happy"}
    /\ ds["A"].names = <<BackendName("A", 2)>>
    /\ ds["A"].classes = <<"happy">>
    /\ ds["A"].y = <<0>>
    /\ XOf("A") = <<BackendFeature("A", 2)>>

\* C3: for a LabelledDataset, 0 <= y[i] < len(classes) for every i, and
\* class_counts has length len(classes) with class_counts[c] the number of
\* instances of class c (0 for a class without instances).
C3_ClassCountsInvariant ==
    err = "none" =>
        \A c \in CorpusIds :
            /\ \A i \in 1..Len(ds[c].y) : 0 <= ds[c].y[i] /\ ds[c].y[i] < Len(ds[c].classes)
            /\ Len(ds[c].class_counts) = Len(ds[c].classes)
            /\ \A k \in 1..Len(ds[c].classes) :
                  ds[c].class_counts[k] = Count(ds[c].y, k - 1)

\* C4: map_classes(mapping) removes no instance; classes becomes the sorted,
\* duplicate-free list of mapping.get(c, c) over the previous classes; every
\* instance's new class name is mapping.get(old name, old name); with the empty
\* mapping every instance keeps its class name and the set of classes is kept.
C4_MapClassesRenames ==
    [][\A o \in ObjIds :
          (last'.op = "map_classes" /\ last'.obj = o /\ nops' = nops + 1
              /\ err' = "none")
          => LET pre == Obj(o)
                 post == IF o = "combined" THEN comb' ELSE ds'[o]
                 map == last'.map
             IN  /\ post.names = pre.names
                 /\ heap'[post.x] = heap[pre.x]
                 /\ post.speaker_indices = pre.speaker_indices
                 /\ Len(post.y) = Len(pre.y)
                 /\ StrictlySorted(post.classes)
                 /\ Range(post.classes) = {MapGet(map, c) : c \in Range(pre.classes)}
                 /\ \A i \in 1..Len(pre.y) :
                       /\ post.y[i] + 1 \in 1..Len(post.classes)
                       /\ ClassAt(post, i) = MapGet(map, ClassAt(pre, i))
                 /\ map = EmptyMap =>
                       /\ Range(post.classes) = Range(pre.classes)
                       /\ \A i \in 1..Len(pre.y) : ClassAt(post, i) = ClassAt(pre, i)]_vars

\* map_classes merged the two classes of corpus B into one; both instances stay
C4_Witness ==
    /\ last.op = "map_classes" /\ last.obj = "B" /\ err = "none"
    /\ last.map # EmptyMap
    /\ ds["B"].classes = <<"sad">>
    /\ ds["B"].y = <<0, 0>>
    /\ Cardinality({t.class : t \in ds["B"].truth}) = 1
    /\ Len(XOf("B")) = 2

\* C5: for a Dataset or LabelledDataset, speaker_group_indices[i] is the index
\* in speaker_groups of the group that contains speakers[speaker_indices[i]],
\* after construction and after any remove_classes.
C5_GroupOfSpeaker ==
    err = "none" =>
        \A c \in CorpusIds :
            \A i \in 1..Len(ds[c].speaker_indices) :
                /\ i <= Len(ds[c].speaker_group_indices)
                /\ ds[c].speaker_group_indices[i] + 1 \in 1..Len(ds[c].speaker_groups)
                /\ ds[c].speakers[ds[c].speaker_indices[i] + 1]
                      \in ds[c].speaker_groups[ds[c].speaker_group_indices[i] + 1]

\* the source position (corpus, 1-based row) behind each row of a
\* concatenation of the listed sources
SourceRows(order) ==
    Concat([j \in 1..Len(order) |->
              [i \in 1..Len(ds[order[j]].names) |-> [corpus |-> order[j], row |-> i]]])

\* C6: CombinedDataset(d_1..d_k) without an allow-list: classes is the sorted
\* union of the sources' classes, n_instances is the sum of the sources'
\* instance counts, the instances come in source order, each keeps the class
\* name it has in its source, and corpus_counts[j] is source j's instance count.
C6_MergeWithoutAllowList ==
    [][/\ (last'.op = "combine" /\ nops' = nops + 1 /\ last'.labels.vals = {})
          => LET order == last'.order
                 rows == SourceRows(order)
                 xs == heap'[comb'.x]
             IN  /\ err' = "none" /\ comb'.built
                 /\ StrictlySorted(comb'.classes)
                 /\ Range(comb'.classes) =
                       UNION {Range(ds[order[j]].classes) : j \in 1..Len(order)}
                 /\ Len(comb'.names) = Sum([j \in 1..Len(order) |-> Len(ds[order[j]].names)])
                 /\ Len(comb'.y) = Len(rows) /\ Len(xs) = Len(rows)
                 /\ Len(comb'.names) = Len(rows)
                 /\ \A i \in 1..Len(rows) :
                       LET d == ds[rows[i].corpus]
                       IN  /\ comb'.names[i] = Prefixed(d.corpus, d.names[rows[i].row])
                           /\ xs[i] = heap[d.x][rows[i].row]
                           /\ ClassAt(comb', i) = ClassAt(d, rows[i].row)
       /\ (last.op = "combine" /\ last.labels.vals = {} /\ last'.op = "corpus_counts"
              /\ nops' = nops + 1)
          => /\ Len(comb'.corpus_counts) = Len(comb.corpora)
             /\ \A j \in 1..Len(comb.corpora) :
                   comb'.corpus_counts[j] = Len(ds[comb.corpora[j]].names)]_vars

\* the merge of B (classes sad, angry) and A (classes sad, happy), two instances
\* each, read its corpus_counts
C6_Witness ==
    /\ last.op = "corpus_counts" /\ err = "none"
    /\ comb.built /\ comb.labels = NoLabels
    /\ comb.corpora = <<"B", "A">>
    /\ comb.classes = <<"angry", "happy", "sad">>
    /\ Len(comb.names) = 4
    /\ comb.corpus_counts = <<2, 2>>
    /\ {ClassAt(comb, i) : i \in 1..Len(comb.y)} = {"angry", "happy", "sad"}

\* C7: in a CombinedDataset every speaker_indices[i] is a valid index into
\* speakers naming corpus + '_' + the instance's speaker, and every
\* speaker_group_indices[i] is a valid index into speaker_groups naming the
\* corpus-prefixed group of that speaker.
C7_NamespacedSpeakers ==
    (comb.built /\ err = "none") =>
        LET xs == heap[comb.x]
        IN  /\ Len(comb.speaker_indices) = Len(xs)
            /\ Len(comb.speaker_group_indices) = Len(xs)
            /\ \A i \in 1..Len(xs) :
                  LET sp == SpeakerOf("combined", xs[i].of)
                  IN  /\ comb.speaker_indices[i] + 1 \in 1..Len(comb.speakers)
                      /\ comb.speakers[comb.speaker_indices[i] + 1] = sp
                      /\ comb.speaker_group_indices[i] + 1 \in 1..Len(comb.speaker_groups)
                      /\ sp \in comb.speaker_groups[comb.speaker_group_indices[i] + 1]

\* C8: a CombinedDataset constructed with a non-empty allow-list holds exactly
\* the source instances whose class name is in the list, and names, x, y,
\* speaker_indices and corpus_indices are filtered together: one length,
\* position i of each describing the same instance.
C8_AllowListFilters ==
    (last.op = "combine" /\ last.labels.vals # {}) =>
        /\ err = "none" /\ comb.built
        /\ LET xs == heap[comb.x]
               n == Len(xs)
           IN  /\ {xs[i].of : i \in 1..n} =
                     {t.of : t \in {u \in comb.truth : u.class \in last.labels.vals}}
               /\ Len(comb.names) = n
               /\ Len(comb.y) = n
               /\ Len(comb.speaker_indices) = n
               /\ Len(comb.corpus_indices) = n
               /\ \A i \in 1..n :
                     /\ comb.names[i] = xs[i].of
                     /\ ClassAt(comb, i) = TruthClass("combined", xs[i].of)
                     /\ comb.speakers[comb.speaker_indices[i] + 1]
                           = SpeakerOf("combined", xs[i].of)
                     /\ comb.corpora[comb.corpus_indices[i] + 1] = xs[i].of.corpus

\* C9: get_corpus_split(c) of a CombinedDataset returns the positions of the
\* instances that came from c and the remaining positions: disjoint, covering
\* 0..n_instances-1, every index valid for x and y.
C9_CorpusSplit ==
    (last.op = "get_corpus_split" /\ err = "none") =>
        LET xs == heap[comb.x]
            corpus_idx == Range(split.corpus_idx)
            other_idx == Range(split.other_idx)
        IN  /\ corpus_idx = {i - 1 : i \in {k \in 1..Len(xs) : xs[k].of.corpus = last.corpus}}
            /\ other_idx = {i - 1 : i \in {k \in 1..Len(xs) : xs[k].of.corpus # last.corpus}}
            /\ corpus_idx \cap other_idx = {}
            /\ corpus_idx \cup other_idx = 0..(Len(comb.names) - 1)
            /\ \A i \in corpus_idx \cup other_idx : i < Len(xs) /\ i < Len(comb.y)

\* every observable field of an object, x by its contents
Observable(o) == [Obj(o) EXCEPT !.x = heap[Obj(o).x]]

\* C10: a CombinedDataset owns copies: normalise, remove_classes and map_classes
\* on a source leave every observable field of the combined dataset unchanged,
\* and the same calls on the combined dataset leave every source unchanged.
C10_NoAliasing ==
    [][(comb.built /\ nops' = nops + 1
          /\ last'.op \in {"normalise", "remove_classes", "map_classes"})
       => /\ last'.obj \in CorpusIds => Observable("combined")' = Observable("combined")
          /\ last'.obj = "combined" =>
                \A c \in CorpusIds : Observable(c)' = Observable(c)]_vars

\* source A was normalised in place after the merge, and the merged rows of A
\* still hold the values the backend delivered
C10_Witness ==
    /\ comb.built /\ err = "none"
    /\ last.op = "normalise" /\ last.obj = "A" /\ last.scheme = "speaker"
    /\ comb.corpora = <<"A">>
    /\ Len(XOf("A")) = 2
    /\ \A i \in 1..2 : XOf("A")[i].v = 0
    /\ \A i \in 1..2 : XOf("combined")[i] = BackendFeature("A", i)

\* the rows of x[offset : offset + n]
Rows(x, offset, n) == SubSeq(x, offset + 1, offset + n)

\* the sum of the lengths that precede instance i
Preceding(slices, i) == Sum(SubSeq(slices, 1, i - 1))

(***************************************************************************)
(* C11: _reshape_data_array is total and dispatches three ways on a valid  *)
(* length vector: when len(x) = len(lengths) it returns x unchanged;       *)
(* otherwise, when all lengths equal L, it returns a rectangular 3-D array *)
(* of len(lengths) instances of L rows each; otherwise a ragged array      *)
(* whose i-th element is the lengths[i] consecutive rows of x that start   *)
(* at the sum of the preceding lengths.                                    *)
(***************************************************************************)
C11_ReshapeDispatch ==
    last.op = "load" =>
        /\ err = "none"
        /\ LET n == Len(nc.slices)
           IN  IF Len(nc.x) = n
               THEN obj.x = [kind |-> "2d", data |-> nc.x]
               ELSE IF \A i \in 1..n : nc.slices[i] = nc.slices[1]
               THEN /\ obj.x.kind = "3d"
                    /\ Len(obj.x.data) = n
                    /\ \A i \in 1..n :
                          obj.x.data[i] = Rows(nc.x, Preceding(nc.slices, i), nc.slices[1])
               ELSE /\ obj.x.kind = "object"
                    /\ Len(obj.x.data) = n
                    /\ \A i \in 1..n :
                          obj.x.data[i] = Rows(nc.x, Preceding(nc.slices, i), nc.slices[i])

(***************************************************************************)
(* C12: _make_flat returns a length vector whose i-th entry is the row     *)
(* count of instance i, and _make_ragged applied to what _make_flat        *)
(* returned gives back the data: as many instances, each with its number   *)
(* of rows and its rows in their order.                                    *)
(***************************************************************************)
C12_RoundTrip ==
    /\ flattened.made =>
          /\ Len(flattened.slices) = Len(flattened.a)
          /\ \A i \in 1..Len(flattened.a) : flattened.slices[i] = Len(flattened.a[i])
    /\ ragged.made =>
          /\ Len(ragged.arrs) = Len(flattened.a)
          /\ \A i \in 1..Len(flattened.a) :
                /\ Len(ragged.arrs[i]) = Len(flattened.a[i])
                /\ \A t \in 1..Len(flattened.a[i]) : ragged.arrs[i][t] = flattened.a[i][t]

\* a round trip was made on data with an empty instance followed by a longer one
C12_Witness ==
    /\ ragged.made
    /\ \E i \in 1..Len(flattened.a) :
          /\ Len(flattened.a[i]) = 0
          /\ \E j \in (i + 1)..Len(flattened.a) : Len(flattened.a[j]) > 1

\* what normalise must leave alone in x: which instance and which row of it
\* stands at each position
Layout(a) ==
    IF a.kind = "2d"
    THEN [i \in 1..Len(a.data) |-> <<[of |-> a.data[i].of, t |-> a.data[i].t]>>]
    ELSE [i \in 1..Len(a.data) |->
            [t \in 1..Len(a.data[i]) |-> [of |-> a.data[i][t].of, t |-> a.data[i][t].t]]]

(***************************************************************************)
(* C13: a call of normalise with scheme 'all' or 'speaker' changes feature *)
(* values only: the representation kind of x, the number and order of the  *)
(* instances and the rows of each instance are the same after the call as  *)
(* before, and names, y and speaker_indices are unchanged.                 *)
(***************************************************************************)
C13_NormaliseFrame ==
    [][(nops' # nops /\ last'.op = "normalise" /\ obj.built) =>
          /\ obj'.x.kind = obj.x.kind
          /\ Layout(obj'.x) = Layout(obj.x)
          /\ obj'.names = obj.names
          /\ obj'.y = obj.y
          /\ obj'.speaker_indices = obj.speaker_indices]_vars

(***************************************************************************)
(* C14: with the transformer of the model, which satisfies T(T(b)) = T(b), *)
(* a call of normalise with scheme 'all' that directly follows another one *)
(* succeeds and leaves x as the first call left it, whatever the kind of x *)
(* the dataset was loaded with.                                            *)
(***************************************************************************)
C14_NormaliseAllIdempotent ==
    [][(nops' # nops /\ last.op = "normalise" /\ last.scheme = "all"
            /\ last'.op = "normalise" /\ last'.scheme = "all") =>
          (err' = "none" /\ obj'.x = obj.x)]_vars

\* the indicator vector of class number k (0-based) over y
Indicator(y, k) == [i \in 1..Len(y) |-> IF y[i] = k THEN 1 ELSE 0]

(***************************************************************************)
(* C15: after binarise(pos_val, pos_aro), labels has for every class c an  *)
(* entry under the name c, the vector that is 1 exactly where y is the     *)
(* index of c; and it has the entries 'arousal' and 'valence' if and only  *)
(* if both lists are non-empty, 1 exactly where the instance's class is in *)
(* pos_aro and in pos_val respectively.                                    *)
(***************************************************************************)
C15_Binarise ==
    last.op = "binarise" =>
        /\ \A k \in 1..Len(obj.classes) :
              /\ obj.classes[k] \in DOMAIN obj.labels
              /\ obj.labels[obj.classes[k]] = Indicator(obj.y, k - 1)
        /\ {"arousal", "valence"} \subseteq DOMAIN obj.labels
              <=> (Len(last.pos_aro) > 0 /\ Len(last.pos_val) > 0)
        /\ "arousal" \in DOMAIN obj.labels =>
              \A i \in 1..Len(obj.y) :
                 obj.labels["arousal"][i] = 1
                    <=> obj.classes[obj.y[i] + 1] \in Range(last.pos_aro)
        /\ "valence" \in DOMAIN obj.labels =>
              \A i \in 1..Len(obj.y) :
                 obj.labels["valence"][i] = 1
                    <=> obj.classes[obj.y[i] + 1] \in Range(last.pos_val)

\* the file types Dataset.__init__ has a backend for
Recognised(f) ==
    \/ suffix(f) \in {".nc", ".txt"}
    \/ (Len(f.suffixes) > 0 /\ f.suffixes[1] = ".arff")

(***************************************************************************)
(* C16: constructing a dataset from a path whose extension is not a        *)
(* recognised one, a path without extension included, fails with the error *)
(* for an unsupported format (the code's NotImplementedError 'Unknown      *)
(* filetype.'), no backend is read and no dataset is returned.             *)
(***************************************************************************)
C16_UnsupportedFormat ==
    (last.op = "load" /\ ~Recognised(file)) =>
        /\ err = "NotImplementedError"
        /\ ~loaded.read
        /\ ~loaded.built

(***************************************************************************)
(* C17: for a file of a recognised type with a known corpus and labels,    *)
(* construction gets one label per instance from the backend; when every   *)
(* label is a declared class it returns a dataset with len(y) =            *)
(* n_instances and classes[y[i]] the i-th backend label, and when some     *)
(* label is not, it fails with the error for an unknown class (the code's  *)
(* ValueError of list.index) and returns no dataset.                       *)
(***************************************************************************)
C17_LabelsToY ==
    (last.op = "load" /\ Recognised(file) /\ file.corpus \in CorpusIds /\ file.has_labels) =>
        /\ loaded.backend # NoBackend
        /\ LET labels == loaded.backend.labels
           IN  IF \A i \in 1..Len(labels) : labels[i] \in Range(corpora[file.corpus].classes)
               THEN /\ err = "none" /\ loaded.built
                    /\ Len(loaded.self.y) = Len(loaded.self.names)
                    /\ Len(loaded.self.y) = Len(labels)
                    /\ \A i \in 1..Len(labels) :
                          loaded.self.classes[loaded.self.y[i] + 1] = labels[i]
               ELSE err = "ValueError" /\ ~loaded.built

(***************************************************************************)
(* C18: the backend of an audio manifest that has a label file holds the   *)
(* labelled instances of the manifest and no other, sorted by name, and    *)
(* names, features and labels have one length, features[i] being the       *)
(* signal of the file named names[i] and labels[i] its label.              *)
(***************************************************************************)
C18_RawAudioAligned ==
    (last.op = "load" /\ suffix(file) = ".txt" /\ file.has_labels) =>
        LET b == loaded.backend
        IN  /\ Range(b.names) = Range(file.names) \cap DOMAIN file.labels
            /\ \A i \in 1..Len(b.names) : \A j \in (i + 1)..Len(b.names) :
                  b.names[i].k < b.names[j].k
            /\ Len(b.features.data) = Len(b.names)
            /\ Len(b.labels) = Len(b.names)
            /\ \A i \in 1..Len(b.names) :
                  /\ b.features.data[i] = <<Signal(b.names[i])>>
                  /\ b.labels[i] = file.labels[b.names[i]]

(***************************************************************************)
(* C19: when remove_classes or map_classes raises, x, names, y, classes,   *)
(* class_counts, speaker_indices and speaker_counts of the object are      *)
(* either all as they were before the call or all updated (one length,     *)
(* and the counts those of the new y and speaker_indices).                 *)
(***************************************************************************)
C19_AllOrNothing ==
    [][\A o \in ObjIds :
          (last'.op \in {"remove_classes", "map_classes"} /\ last'.obj = o
              /\ nops' = nops + 1 /\ err' # "none")
          => LET pre == Obj(o)
                 post == IF o = "combined" THEN comb' ELSE ds'[o]
             IN  \/ /\ heap'[post.x] = heap[pre.x]
                    /\ post.names = pre.names
                    /\ post.y = pre.y
                    /\ post.classes = pre.classes
                    /\ post.class_counts = pre.class_counts
                    /\ post.speaker_indices = pre.speaker_indices
                    /\ post.speaker_counts = pre.speaker_counts
                 \/ /\ Len(heap'[post.x]) = Len(post.names)
                    /\ Len(post.y) = Len(post.names)
                    /\ Len(post.speaker_indices) = Len(post.names)
                    /\ post.class_counts =
                          [k \in 1..Len(post.classes) |-> Count(post.y, k - 1)]
                    /\ post.speaker_counts =
                          [k \in 1..Len(post.speakers) |->
                             Count(post.speaker_indices, k - 1)]]_vars

(***************************************************************************)
(* C20: whenever a backend constructor has returned or raised, no file or  *)
(* container it opened is still open.                                      *)
(***************************************************************************)
C20_HandlesReleased == handles = {}

\* the backends constructed so far, each with its source file: those of the
\* earlier calls and, if its constructor ended normally, that of the last call
Constructed ==
    loaded.earlier \o (IF loaded.backend # NoBackend
                       THEN <<[file |-> file, backend |-> loaded.backend]>>
                       ELSE <<>>)

\* backend.names and backend.feature_names as a caller reads them now
NamesNow(b) == IF b.names_shared THEN cls.names ELSE b.names

FeatureNamesNow(b) == IF b.feature_names_shared THEN cls.feature_names ELSE b.feature_names

\* the instances a file gives its backend: for a manifest with a label file
\* the labelled ones, otherwise all
InstancesOf(f) ==
    IF suffix(f) = ".txt" /\ f.has_labels
    THEN Range(f.names) \cap DOMAIN f.labels
    ELSE Range(f.names)

(***************************************************************************)
(* C21: after any sequence of constructions, the names and feature_names   *)
(* of every backend constructed so far hold entries of its own source      *)
(* only: names has exactly one entry per instance of the source, and       *)
(* feature_names is the feature list of that one source ('pcm' once for a  *)
(* manifest), whatever was constructed before or after it.                 *)
(***************************************************************************)
C21_NoSharedState ==
    \A k \in 1..Len(Constructed) :
        LET b == Constructed[k].backend
            f == Constructed[k].file
        IN  /\ Range(NamesNow(b)) = InstancesOf(f)
            /\ Len(NamesNow(b)) = Cardinality(InstancesOf(f))
            /\ FeatureNamesNow(b) =
                  (IF suffix(f) = ".txt" THEN <<"pcm">> ELSE <<"feature_1">>)

====
